---- MODULE Spec2Model ----
(***************************************************************************)
(* Model of lib/package_source.py: the source descriptor (a dict of dicts) *)
(* threaded through download() and archive(), the three backend adapters,  *)
(* and the retry loops wrapped around the clone / fetch / open steps.      *)
(*                                                                         *)
(* Strings are sequences of tokens in which "." and "/" are always tokens  *)
(* of their own, so that os.path.basename, os.path.join, str.split(".")    *)
(* and ".".join are computed as the library computes them.                 *)
(***************************************************************************)
EXTENDS Integers, Sequences, FiniteSets, TLC

VARIABLES
    source,   \* the descriptor: key -> variant dict
    src0,     \* history: the descriptor as the caller constructed it
    pre,      \* history: the descriptor at entry to the current / last call
    fs,       \* the filesystem: path -> content
    fsPre,    \* history: the filesystem at entry to the current / last call
    pc,       \* position inside the call in progress, "idle" between calls
    frame,    \* local variables of the call in progress
    opLog,    \* history: external operations invoked by the current / last call
    trace,    \* history: the outcome of every call that has ended
    conf,     \* build_release_notes: the configuration given to run
    runPc,    \* build_release_notes: position inside run, "off" when not run
    runLog,   \* build_release_notes, history: what run has done so far
    runExc    \* build_release_notes: the exception that ended run, if any

pkgVars == <<source, src0, pre, fs, fsPre, pc, frame, opLog, trace>>
runVars == <<conf, runPc, runLog, runExc>>
vars == <<pkgVars, runVars>>

----------------------------------------------------------------------------
(* Bounds *)

MaxCalls == 3      \* download / archive calls made on the descriptor
MaxAttempts == 3   \* invocations of one retried operation within one call
BodyLen == 2       \* chunks of the body served for the URL

----------------------------------------------------------------------------
(* Values held in the dicts *)

Str(s) == [t |-> "str", v |-> s]
NoneV == [t |-> "none", v |-> <<>>]
Repo(p) == [t |-> "repo", v |-> p]

\* dict.get(key): None when the key is missing
Get(d, k) == IF k \in DOMAIN d THEN d[k] ELSE NoneV

\* d[key] = value on a dict
Put(d, k, x) == [f \in (DOMAIN d) \cup {k} |-> IF f = k THEN x ELSE d[f]]

\* str.format on a value: None is rendered as the text None
Format(x) == IF x.t = "none" THEN <<"None">> ELSE x.v

----------------------------------------------------------------------------
(* String and path functions *)

RECURSIVE LastSlash(_, _)
LastSlash(p, i) ==
    IF i = 0 THEN 0
    ELSE IF p[i] = "/" THEN i
    ELSE LastSlash(p, i - 1)

\* os.path.basename
Basename(p) == SubSeq(p, LastSlash(p, Len(p)) + 1, Len(p))

\* os.path.join of two components
Join(a, b) ==
    IF Len(b) > 0 /\ b[1] = "/" THEN b
    ELSE IF a = <<>> \/ a[Len(a)] = "/" THEN a \o b
    ELSE a \o <<"/">> \o b

RECURSIVE SplitDot(_)
\* str.split(".")
SplitDot(s) ==
    LET RECURSIVE FirstDot(_)
        FirstDot(i) ==
            IF i > Len(s) THEN 0
            ELSE IF s[i] = "." THEN i
            ELSE FirstDot(i + 1)
        d == FirstDot(1)
    IN  IF d = 0 THEN <<s>>
        ELSE <<SubSeq(s, 1, d - 1)>> \o SplitDot(SubSeq(s, d + 1, Len(s)))

RECURSIVE JoinDot(_)
\* ".".join(parts)
JoinDot(parts) ==
    IF parts = <<>> THEN <<>>
    ELSE IF Len(parts) = 1 THEN parts[1]
    ELSE parts[1] \o <<".">> \o JoinDot(Tail(parts))

\* ".".join(os.path.basename(file_path).split(".")[1:])
FileExt(file_path) == JoinDot(Tail(SplitDot(Basename(file_path))))

TarGz == <<".", "tar", ".", "gz">>

----------------------------------------------------------------------------
(* Exceptions.  stdout / stderr say whether the captured output of the     *)
(* failed process contains the text 'timed out'.                           *)

Exc(k) == [kind |-> k, stdout |-> FALSE, stderr |-> FALSE]
Ok == Exc("ok")
SubprocessError(o, e) == [kind |-> "SubprocessError", stdout |-> o, stderr |-> e]

\* isinstance(exc, cls) for the classes used here
IsInstance(exc, cls) == exc.kind /= "ok" /\ (cls = "Exception" \/ exc.kind = cls)

----------------------------------------------------------------------------
(* The descriptors a caller constructs *)

TmpY == <<"/", "tmp", "/", "y">>
Dirs == {TmpY}
ArchiveDirs == {TmpY, <<>>}

GitSrc == <<"https:", "/", "/", "example", "/", "repo", ".", "git">>
HgSrc == <<"https:", "/", "/", "example", "/", "hgrepo">>
UrlSrcs ==
    { <<"https:", "/", "/", "example", "/", "file-1", ".", "2", ".", "tar", ".", "bz2">>,
      <<"https:", "/", "/", "example", "/", "pkgname", ".", "tgz">>,
      <<"https:", "/", "/", "example", "/", "README">> }

Commit == <<"c1">>
Branch == <<"main">>
ArchiveName == <<"pkgname">>
Proxies == {NoneV, Str(<<"proxy">>)}

\* each optional entry is missing (0), present (1) or, for commit_id and
\* branch, present with the value None (2)
VcsDict(src, c, b, a) ==
    LET d0 == [src |-> Str(src)]
        d1 == IF c = 0 THEN d0
              ELSE Put(d0, "commit_id", IF c = 1 THEN Str(Commit) ELSE NoneV)
        d2 == IF b = 0 THEN d1
              ELSE Put(d1, "branch", IF b = 1 THEN Str(Branch) ELSE NoneV)
    IN  IF a = 0 THEN d2 ELSE Put(d2, "archive", Str(ArchiveName))

UrlDict(src, a) ==
    IF a = 0 THEN [src |-> Str(src)]
    ELSE [src |-> Str(src), archive |-> Str(ArchiveName)]

GitDicts == {VcsDict(GitSrc, c, b, a) : c \in 0..2, b \in 0..2, a \in 0..1}
HgDicts == {VcsDict(HgSrc, c, b, a) : c \in 0..2, b \in 0..2, a \in 0..1}
UrlDicts == {UrlDict(s, a) : s \in UrlSrcs, a \in 0..1}

DefaultDict(k) ==
    IF k = "git" THEN VcsDict(GitSrc, 1, 1, 1)
    ELSE IF k = "hg" THEN VcsDict(HgSrc, 1, 1, 1)
    ELSE UrlDict(<<"https:", "/", "/", "example", "/", "pkgname", ".", "tgz">>, 1)

Descriptors ==
    {[k \in {"git"} |-> d] : d \in GitDicts}
    \cup {[k \in {"hg"} |-> d] : d \in HgDicts}
    \cup {[k \in {"url"} |-> d] : d \in UrlDicts}
    \cup {[k \in ks |-> DefaultDict(k)] :
            ks \in {{}, {"svn"}, {"git", "hg"}, {"git", "url"}, {"hg", "url"},
                    {"git", "hg", "url"}, {"git", "svn"}}}

----------------------------------------------------------------------------
(* Bookkeeping shared by the actions *)

Frame(dir, dest, rev, proxy, timeout, n) ==
    [directory |-> dir, dest |-> dest, rev |-> rev, proxy |-> proxy,
     timeout |-> timeout, n |-> n]
NoFrame == Frame(<<>>, <<>>, <<>>, NoneV, 0, 0)

Op(name, timeout, arg, out) ==
    [op |-> name, timeout |-> timeout, arg |-> arg, out |-> out]

\* the call op(source, directory) returns (exc = Ok) or raises exc; clean
\* says that every collaborator it invoked answered without an error
Finish(op, directory, exc) ==
    /\ pc' = "idle"
    /\ frame' = NoFrame
    /\ trace' = Append(trace, [op |-> op, dir |-> directory, exc |-> exc,
                               clean |-> \A i \in 1..Len(opLog') : opLog'[i].out = Ok])

\* a call starts: only between calls, the program being sequential
Enter ==
    /\ pc = "idle"
    /\ Len(trace) < MaxCalls
    /\ pre' = source
    /\ fsPre' = fs
    /\ src0' = src0
    /\ UNCHANGED runVars

\* no release-notes run is made beside the calls on the descriptor
NoConf == [k \in {} |-> NoneV]

WriteFile(path, content) ==
    [p \in (DOMAIN fs) \cup {path} |-> IF p = path THEN content ELSE fs[p]]

Init ==
    /\ source \in Descriptors
    /\ src0 = source
    /\ pre = source
    /\ fs = [p \in {} |-> <<>>]
    /\ fsPre = fs
    /\ pc = "idle"
    /\ frame = NoFrame
    /\ opLog = <<>>
    /\ trace = <<>>
    /\ conf = NoConf
    /\ runPc = "off"
    /\ runLog = <<>>
    /\ runExc = Ok

----------------------------------------------------------------------------
(* utils.retry_on_timeout and utils.retry_on_error, and the repository     *)
(* layer: collaborators whose code is outside the files modelled here.     *)

\* retry_on_timeout: the timeout passed to the next invocation
NextTimeout(timeout) == timeout * 2

\* retry_on_error: a failure is retried when it is an instance of `error`
RetryOnError(exc, error) == IsInstance(exc, error)

\* get_git_repository: where the clone of `src` lives under `directory`
GitClonePath(src, directory) == Join(directory, Basename(src))

\* repo.archive: the tarball made for `name` in `directory`
GitArchivePath(name, directory) == Join(directory, name \o TarGz)

----------------------------------------------------------------------------
(* download *)

\* a chain that tests membership instead of comparing the key list
DownloadDispatchByMembership(s) ==
    IF "git" \in DOMAIN s THEN "git"
    ELSE IF "hg" \in DOMAIN s THEN "hg"
    ELSE IF "url" \in DOMAIN s THEN "url"
    ELSE "ValueError"

\* the if / elif chain of download over source.keys()
DownloadDispatch(s) ==
    IF DOMAIN s = {"git"} THEN "git"
    ELSE IF DOMAIN s = {"hg"} THEN "hg"
    ELSE IF DOMAIN s = {"url"} THEN "url"
    ELSE "ValueError"

\* a test of the keys' presence instead of their values
MissingBothKeys(d) == "commit_id" \notin DOMAIN d /\ "branch" \notin DOMAIN d

\* commit_id is None and branch is None, both read with dict.get
MissingBoth(d) == Get(d, "commit_id") = NoneV /\ Get(d, "branch") = NoneV

\* truth value of a dict entry
Truthy(x) == x.t /= "none" /\ x.v /= <<>>

\* branch or commit_id
CheckoutRefBranchFirst(d) ==
    IF Truthy(Get(d, "branch")) THEN Get(d, "branch") ELSE Get(d, "commit_id")

\* commit_id or branch
CheckoutRef(d) ==
    IF Truthy(Get(d, "commit_id")) THEN Get(d, "commit_id") ELSE Get(d, "branch")

UrlInitialTimeout == 10

\* the initial timeout of the other retry
HgInitialTimeoutOfUrl == UrlInitialTimeout

HgInitialTimeout == 60

\* a classifier that looks at stdout only
HgIsTimeoutErrorStdoutOnly(exc) ==
    IF ~IsInstance(exc, "SubprocessError") THEN FALSE
    ELSE exc.stdout

\* _is_timeout_error of _hg_download
HgIsTimeoutError(exc) ==
    IF ~IsInstance(exc, "SubprocessError") THEN FALSE
    ELSE exc.stdout \/ exc.stderr

\* the lambda given to retry_on_timeout by _url_download
UrlIsTimeoutError(exc) == IsInstance(exc, "socket.timeout")

\* a retry on every exception
GitRetryAnyError == "Exception"

\* a retry on another error class
GitRetryOSError == "OSError"

\* the error class given to retry_on_error by _git_download
GitRetryError == "RepositoryError"

\* what the collaborators may answer
RunCommandOutcomes ==
    {Ok, Exc("OSError"), SubprocessError(FALSE, FALSE),
     SubprocessError(TRUE, FALSE), SubprocessError(FALSE, TRUE)}
GetRepositoryOutcomes == {Ok, Exc("RepositoryError"), Exc("OSError")}
CheckoutOutcomes == {Ok, Exc("RepositoryError"), Exc("OSError")}
UrlOpenOutcomes == {Ok, Exc("socket.timeout"), Exc("URLError")}
OpenFileOutcomes == {Ok, Exc("IOError")}
ReadOutcomes == {Ok, Exc("socket.timeout"), Exc("IOError")}
RepoArchiveOutcomes == {Ok, Exc("RepositoryError")}
MoveOutcomes == {Ok, Exc("IOError")}

\* the body urlopen serves
Chunk(i) == <<"chunk", ToString(i)>>
RECURSIVE Body(_)
Body(n) == IF n = 0 THEN <<>> ELSE Body(n - 1) \o Chunk(n)

\* _git_download up to the first fetch
GitDownloadEnter(directory) ==
    IF MissingBoth(source["git"])
    THEN Finish("download", directory, Exc("ValueError"))
    ELSE /\ pc' = "git_fetch"
         /\ frame' = Frame(directory, <<>>, <<>>, NoneV, 0, 0)
         /\ trace' = trace

\* _hg_download up to the first clone
HgDownloadEnter(directory, proxy) ==
    LET hg_source == source["hg"]
        dest == Join(directory, Basename(hg_source["src"].v))
    IN  IF MissingBoth(hg_source)
        THEN Finish("download", directory, Exc("ValueError"))
        ELSE IF "branch" \notin DOMAIN hg_source
        THEN Finish("download", directory, Exc("KeyError"))
        ELSE /\ pc' = "hg_clone"
             /\ frame' = Frame(directory, dest, Format(hg_source["branch"]),
                               IF Truthy(proxy) THEN proxy ELSE NoneV,
                               HgInitialTimeout, 0)
             /\ trace' = trace

\* _url_download up to the first urlopen
UrlDownloadEnter(directory) ==
    /\ pc' = "url_open"
    /\ frame' = Frame(directory,
                      Join(directory, Basename(source["url"]["src"].v)),
                      <<>>, NoneV, UrlInitialTimeout, 0)
    /\ trace' = trace

\* download(source, directory), with http_proxy as configured
CallDownload(directory, proxy) ==
    /\ Enter
    /\ opLog' = <<>>
    /\ UNCHANGED <<source, fs>>
    /\ LET to == DownloadDispatch(source)
       IN  IF to = "git" THEN GitDownloadEnter(directory)
           ELSE IF to = "hg" THEN HgDownloadEnter(directory, proxy)
           ELSE IF to = "url" THEN UrlDownloadEnter(directory)
           ELSE Finish("download", directory, Exc("ValueError"))

\* one invocation of _clone_repository by retry_on_timeout
HgCloneAttempt(out) ==
    /\ pc = "hg_clone"
    /\ Len(opLog) < MaxAttempts
    /\ opLog' = Append(opLog, Op("run_command", frame.timeout, frame.rev, out))
    /\ UNCHANGED <<src0, pre, fsPre, runVars>>
    /\ IF out = Ok
       THEN /\ fs' = WriteFile(frame.dest, <<"hg", "clone">> \o frame.rev)
            /\ source' = [source EXCEPT !["hg"] = Put(@, "dest", Str(frame.dest))]
            /\ Finish("download", frame.directory, Ok)
       ELSE IF HgIsTimeoutError(out)
       THEN /\ frame' = [frame EXCEPT !.timeout = NextTimeout(@)]
            /\ UNCHANGED <<source, fs, pc, trace>>
       ELSE /\ Finish("download", frame.directory, out)
            /\ UNCHANGED <<source, fs>>

\* one invocation of _download_repository by retry_on_error
GitFetchAttempt(out) ==
    /\ pc = "git_fetch"
    /\ Len(opLog) < MaxAttempts
    /\ opLog' = Append(opLog, Op("get_git_repository", 0, source["git"]["src"].v, out))
    /\ UNCHANGED <<source, src0, pre, fsPre, runVars>>
    /\ IF out = Ok
       THEN LET path == GitClonePath(source["git"]["src"].v, frame.directory)
            IN  /\ fs' = IF path \in DOMAIN fs THEN fs
                         ELSE WriteFile(path, <<"git", "clone">>)
                /\ frame' = [frame EXCEPT !.dest = path]
                /\ pc' = "git_checkout"
                /\ trace' = trace
       ELSE IF RetryOnError(out, GitRetryError)
       THEN UNCHANGED <<fs, frame, pc, trace>>
       ELSE /\ Finish("download", frame.directory, out)
            /\ fs' = fs

\* the handle stored in the descriptor before the checkout
GitCheckoutRecordsFirst(out) ==
    /\ pc = "git_checkout"
    /\ LET ref == CheckoutRef(source["git"])
       IN  /\ opLog' = Append(opLog, Op("checkout", 0, Format(ref), out))
           /\ source' = [source EXCEPT !["git"] = Put(@, "repo", Repo(frame.dest))]
           /\ Finish("download", frame.directory, out)
           /\ fs' = IF out = Ok
                    THEN WriteFile(frame.dest, <<"git", "clone", "at">> \o Format(ref))
                    ELSE fs
    /\ UNCHANGED <<src0, pre, fsPre, runVars>>

\* repo.checkout(commit_id or branch) and the rest of _git_download
GitCheckout(out) ==
    /\ pc = "git_checkout"
    /\ LET ref == CheckoutRef(source["git"])
       IN  /\ opLog' = Append(opLog, Op("checkout", 0, Format(ref), out))
           /\ IF out = Ok
              THEN /\ fs' = WriteFile(frame.dest, <<"git", "clone", "at">> \o Format(ref))
                   /\ source' = [source EXCEPT !["git"] = Put(@, "repo", Repo(frame.dest))]
                   /\ Finish("download", frame.directory, Ok)
              ELSE /\ Finish("download", frame.directory, out)
                   /\ UNCHANGED <<source, fs>>
    /\ UNCHANGED <<src0, pre, fsPre, runVars>>

\* one invocation of _open_url by retry_on_timeout
UrlOpenAttempt(out) ==
    /\ pc = "url_open"
    /\ Len(opLog) < MaxAttempts
    /\ opLog' = Append(opLog, Op("urlopen", frame.timeout, source["url"]["src"].v, out))
    /\ UNCHANGED <<source, src0, pre, fs, fsPre, runVars>>
    /\ IF out = Ok
       THEN /\ pc' = "url_create"
            /\ UNCHANGED <<frame, trace>>
       ELSE IF UrlIsTimeoutError(out)
       THEN /\ frame' = [frame EXCEPT !.timeout = NextTimeout(@)]
            /\ UNCHANGED <<pc, trace>>
       ELSE Finish("download", frame.directory, out)

\* open(dest, 'wb')
UrlCreateFile(out) ==
    /\ pc = "url_create"
    /\ opLog' = Append(opLog, Op("open", 0, frame.dest, out))
    /\ UNCHANGED <<source, src0, pre, fsPre, runVars>>
    /\ IF out = Ok
       THEN /\ fs' = WriteFile(frame.dest, <<>>)
            /\ pc' = "url_read"
            /\ UNCHANGED <<frame, trace>>
       ELSE /\ Finish("download", frame.directory, out)
            /\ fs' = fs

\* a read loop inside the retry: a timeout of a read opens the URL again
UrlReadChunkReopens(out) ==
    /\ pc = "url_read"
    /\ opLog' = Append(opLog, Op("read", 0, <<>>, out))
    /\ UNCHANGED <<src0, pre, fsPre, runVars>>
    /\ IF UrlIsTimeoutError(out)
       THEN /\ pc' = "url_open"
            /\ frame' = [frame EXCEPT !.timeout = NextTimeout(@), !.n = 0]
            /\ UNCHANGED <<source, fs, trace>>
       ELSE IF out /= Ok
       THEN /\ Finish("download", frame.directory, out)
            /\ UNCHANGED <<source, fs>>
       ELSE IF frame.n < BodyLen
       THEN /\ fs' = WriteFile(frame.dest, fs[frame.dest] \o Chunk(frame.n + 1))
            /\ frame' = [frame EXCEPT !.n = @ + 1]
            /\ UNCHANGED <<source, pc, trace>>
       ELSE /\ source' = [source EXCEPT !["url"] = Put(@, "dest", Str(frame.dest))]
            /\ Finish("download", frame.directory, Ok)
            /\ fs' = fs

\* one turn of the read loop: response.read, then f.write or break
UrlReadChunk(out) ==
    /\ pc = "url_read"
    /\ opLog' = Append(opLog, Op("read", 0, <<>>, out))
    /\ UNCHANGED <<src0, pre, fsPre, runVars>>
    /\ IF out /= Ok
       THEN /\ Finish("download", frame.directory, out)
            /\ UNCHANGED <<source, fs>>
       ELSE IF frame.n < BodyLen
       THEN /\ fs' = WriteFile(frame.dest, fs[frame.dest] \o Chunk(frame.n + 1))
            /\ frame' = [frame EXCEPT !.n = @ + 1]
            /\ UNCHANGED <<source, pc, trace>>
       ELSE /\ source' = [source EXCEPT !["url"] = Put(@, "dest", Str(frame.dest))]
            /\ Finish("download", frame.directory, Ok)
            /\ fs' = fs

----------------------------------------------------------------------------
(* archive *)

\* a dispatch on the first known key, without the checks on the key count
ArchiveDispatchByMembership(s) ==
    IF "git" \in DOMAIN s THEN "git"
    ELSE IF "hg" \in DOMAIN s THEN "hg"
    ELSE IF "url" \in DOMAIN s THEN "url"
    ELSE "ValueError"

\* the checks and the if / elif chain of archive
ArchiveDispatch(s) ==
    IF DOMAIN s = {} THEN "ValueError"
    ELSE IF Cardinality(DOMAIN s) > 1 THEN "ValueError"
    ELSE IF DOMAIN s = {"git"} THEN "git"
    ELSE IF DOMAIN s = {"hg"} THEN "hg"
    ELSE IF DOMAIN s = {"url"} THEN "url"
    ELSE "ValueError"

\* os.path.join(directory, archive_name + ".tar.gz")
HgArchiveFile(d, directory) == Join(directory, d["archive"].v \o TarGz)

\* os.path.join(directory, archive_name + "." + file_ext)
UrlArchivePath(d, directory) ==
    Join(directory, d["archive"].v \o <<".">> \o FileExt(d["dest"].v))

\* the path stored under 'dest' as well
RecordArchiveAndDest(d, path) == Put(Put(d, "archive", Str(path)), "dest", Str(path))

\* the variant dict once the adapter has stored the path under 'archive'
RecordArchive(d, path) == Put(d, "archive", Str(path))

\* a copy, which leaves the file at file_path
CopyFile(file_path, archive_path) ==
    [p \in (DOMAIN fs) \cup {archive_path} |->
        IF p = archive_path THEN fs[file_path] ELSE fs[p]]

\* shutil.move(file_path, archive_path)
MoveFile(file_path, archive_path) ==
    [p \in ((DOMAIN fs) \ {file_path}) \cup {archive_path} |->
        IF p = archive_path THEN fs[file_path] ELSE fs[p]]

\* the call raises exc before any collaborator is reached
ArchiveRaise(directory, exc) ==
    /\ opLog' = <<>>
    /\ Finish("archive", directory, exc)
    /\ UNCHANGED <<source, fs>>

\* _git_archive
GitArchive(directory, out) ==
    LET git_source == source["git"]
    IN  IF "repo" \notin DOMAIN git_source THEN ArchiveRaise(directory, Exc("KeyError"))
        ELSE IF "archive" \notin DOMAIN git_source THEN ArchiveRaise(directory, Exc("KeyError"))
        ELSE IF "commit_id" \notin DOMAIN git_source THEN ArchiveRaise(directory, Exc("KeyError"))
        ELSE /\ out \in RepoArchiveOutcomes
             /\ opLog' = <<Op("repo.archive", 0, git_source["archive"].v, out)>>
             /\ Finish("archive", directory, out)
             /\ IF out = Ok
                THEN LET path == GitArchivePath(git_source["archive"].v, directory)
                     IN  /\ fs' = WriteFile(path, <<"tgz", "of">> \o git_source["repo"].v)
                         /\ source' = [source EXCEPT
                                          !["git"] = RecordArchive(@, path)]
                ELSE UNCHANGED <<source, fs>>

\* _hg_archive
HgArchive(directory, out) ==
    LET hg_source == source["hg"]
    IN  IF "archive" \notin DOMAIN hg_source THEN ArchiveRaise(directory, Exc("KeyError"))
        ELSE IF "dest" \notin DOMAIN hg_source THEN ArchiveRaise(directory, Exc("KeyError"))
        ELSE LET archive_file == HgArchiveFile(hg_source, directory)
             IN  /\ out \in RunCommandOutcomes
                 /\ opLog' = <<Op("run_command", 0, archive_file, out)>>
                 /\ Finish("archive", directory, out)
                 /\ IF out = Ok
                    THEN /\ fs' = WriteFile(archive_file,
                                            <<"tgz", "of">> \o hg_source["dest"].v)
                         /\ source' = [source EXCEPT
                                          !["hg"] = RecordArchive(@, archive_file)]
                    ELSE UNCHANGED <<source, fs>>

\* _url_archive
UrlArchive(directory, out) ==
    LET url_source == source["url"]
    IN  IF "dest" \notin DOMAIN url_source THEN ArchiveRaise(directory, Exc("KeyError"))
        ELSE IF "archive" \notin DOMAIN url_source THEN ArchiveRaise(directory, Exc("KeyError"))
        ELSE LET file_path == url_source["dest"].v
                 archive_path == UrlArchivePath(url_source, directory)
             IN  /\ out \in MoveOutcomes
                 /\ out = Ok => file_path \in DOMAIN fs
                 /\ opLog' = <<Op("move", 0, archive_path, out)>>
                 /\ Finish("archive", directory, out)
                 /\ IF out = Ok
                    THEN /\ fs' = MoveFile(file_path, archive_path)
                         /\ source' = [source EXCEPT
                                          !["url"] = RecordArchive(@, archive_path)]
                    ELSE UNCHANGED <<source, fs>>

\* archive(source, directory); out is the answer of the one collaborator
\* the adapter calls
CallArchive(directory, out) ==
    /\ Enter
    /\ LET to == ArchiveDispatch(source)
       IN  IF to = "git" THEN GitArchive(directory, out)
           ELSE IF to = "hg" THEN HgArchive(directory, out)
           ELSE IF to = "url" THEN UrlArchive(directory, out)
           ELSE ArchiveRaise(directory, Exc("ValueError"))

----------------------------------------------------------------------------

Next ==
    \/ \E d \in Dirs, p \in Proxies : CallDownload(d, p)
    \/ \E out \in RunCommandOutcomes : HgCloneAttempt(out)
    \/ \E out \in GetRepositoryOutcomes : GitFetchAttempt(out)
    \/ \E out \in CheckoutOutcomes : GitCheckout(out)
    \/ \E out \in UrlOpenOutcomes : UrlOpenAttempt(out)
    \/ \E out \in OpenFileOutcomes : UrlCreateFile(out)
    \/ \E out \in ReadOutcomes : UrlReadChunk(out)
    \/ \E d \in ArchiveDirs, out \in RunCommandOutcomes \cup RepoArchiveOutcomes \cup MoveOutcomes :
          CallArchive(d, out)

Spec == Init /\ [][Next]_vars

----------------------------------------------------------------------------
(* Vocabulary of the properties *)

Last == trace[Len(trace)]

\* the call in progress, or else the last call that ended, is a download
InDownload == pc /= "idle" \/ (Len(trace) > 0 /\ Last.op = "download")

\* an archive call has just ended
ArchiveEnded == pc = "idle" /\ Len(trace) > 0 /\ Last.op = "archive"

\* the entry carries a string
IsSet(d, k) == k \in DOMAIN d /\ d[k].t = "str"

KnownShapes == {{"git"}, {"hg"}, {"url"}}

\* one populated variant with an archive name and, for git and hg, a
\* commit_id or a branch
ValidDescriptor(s) ==
    /\ DOMAIN s \in KnownShapes
    /\ \A k \in DOMAIN s :
          /\ IsSet(s[k], "archive")
          /\ k \in {"git", "hg"} => IsSet(s[k], "commit_id") \/ IsSet(s[k], "branch")

\* a git or hg descriptor that carries neither a commit_id nor a branch
NoRevision(s) ==
    /\ DOMAIN s \in {{"git"}, {"hg"}}
    /\ \A k \in DOMAIN s : ~IsSet(s[k], "commit_id") /\ ~IsSet(s[k], "branch")

\* the value stored under 'archive' exists as a file
ArchiveFileExists ==
    \A k \in DOMAIN source :
        /\ "archive" \in DOMAIN source[k]
        /\ source[k]["archive"].v \in DOMAIN fs

----------------------------------------------------------------------------
(* C1: for every descriptor with exactly one populated variant and, for    *)
(* git and hg, a commit_id or a branch, download followed by archive, with *)
(* every collaborator answering without an error, both succeed and leave   *)
(* the archive path naming an existing file.                               *)
C1_DownloadThenArchive ==
    (/\ ValidDescriptor(src0)
     /\ Len(trace) >= 1
     /\ trace[1].op = "download"
     /\ trace[1].clean)
    => /\ trace[1].exc = Ok
       /\ (Len(trace) >= 2 /\ trace[2].op = "archive" /\ trace[2].clean)
             => /\ trace[2].exc = Ok
                /\ (Len(trace) = 2 /\ pc = "idle") => ArchiveFileExists

(* C2: archive on a descriptor with no populated variant or with several   *)
(* fails with ValueError before any adapter is called: no collaborator is  *)
(* invoked, the filesystem and the descriptor are as before the call.      *)
C2_ArchiveRejectsShape ==
    (ArchiveEnded /\ Cardinality(DOMAIN pre) /= 1)
    => /\ Last.exc = Exc("ValueError")
       /\ opLog = <<>>
       /\ source = pre
       /\ fs = fsPre

C2_Witness ==
    /\ ArchiveEnded
    /\ Cardinality(DOMAIN pre) > 1
    /\ Last.exc = Exc("ValueError")

(* C3: download on a descriptor whose populated variants are not exactly   *)
(* {git}, {hg} or {url} fails with ValueError before any clone, process    *)
(* run or fetch, and leaves the descriptor unchanged.                      *)
C3_DownloadRejectsShape ==
    (InDownload /\ DOMAIN pre \notin KnownShapes)
    => /\ pc = "idle"
       /\ Last.exc = Exc("ValueError")
       /\ opLog = <<>>
       /\ source = pre
       /\ fs = fsPre

C3_Witness ==
    /\ InDownload
    /\ pc = "idle"
    /\ DOMAIN pre = {"git", "hg"}
    /\ Last.exc = Exc("ValueError")

(* C4: download on a git or hg descriptor that has neither commit_id nor   *)
(* branch fails with ValueError without invoking the clone / fetch even    *)
(* once, and without recording dest or the repository handle.              *)
C4_DownloadNeedsRevision ==
    (InDownload /\ NoRevision(pre))
    => /\ pc = "idle"
       /\ Last.exc = Exc("ValueError")
       /\ opLog = <<>>
       /\ source = pre

C4_Witness ==
    /\ InDownload
    /\ pc = "idle"
    /\ DOMAIN pre = {"hg"}
    /\ NoRevision(pre)
    /\ "commit_id" \in DOMAIN pre["hg"]
    /\ Last.exc = Exc("ValueError")

(* C5: timeout-escalating retry as used by the hg clone (initial timeout   *)
(* 60) and by the URL open (initial timeout 10): invocation k is given the *)
(* initial timeout times 2^(k-1); an invocation is followed by another one *)
(* exactly when it failed with a timeout-classified error; and the first   *)
(* success ends the retry, whose caller goes on with that result.          *)
C5_TimeoutEscalation ==
    InDownload =>
    \A k \in 1..Len(opLog) :
        LET o == opLog[k]
            hgTimedOut == o.out.kind = "SubprocessError" /\ (o.out.stdout \/ o.out.stderr)
            urlTimedOut == o.out.kind = "socket.timeout"
        IN  /\ o.op = "run_command" =>
                 /\ o.timeout = 60 * 2 ^ (k - 1)
                 /\ k < Len(opLog) => hgTimedOut
                 /\ hgTimedOut => (k < Len(opLog) \/ pc = "hg_clone")
                 /\ o.out = Ok => (k = Len(opLog) /\ pc = "idle" /\ Last.exc = Ok)
            /\ o.op = "urlopen" =>
                 /\ o.timeout = 10 * 2 ^ (k - 1)
                 /\ (k < Len(opLog) /\ opLog[k + 1].op = "urlopen") => urlTimedOut
                 /\ urlTimedOut => IF k < Len(opLog) THEN opLog[k + 1].op = "urlopen"
                                   ELSE pc = "url_open"
                 /\ o.out = Ok => /\ pc /= "url_open"
                                  /\ k < Len(opLog) => opLog[k + 1].op = "open"

C5_Witness ==
    /\ InDownload
    /\ pc = "idle"
    /\ Len(opLog) = 3
    /\ opLog[1].op = "run_command"
    /\ opLog[1].out = SubprocessError(FALSE, TRUE)
    /\ opLog[2].out = SubprocessError(TRUE, FALSE)
    /\ opLog[3].out = Ok
    /\ opLog[3].timeout = 240
    /\ Last.exc = Ok

(* C6: in git download, when the first invocation of the repository fetch  *)
(* fails with an error that is not a RepositoryError, that error leaves    *)
(* download unchanged after exactly one invocation; nothing is checked out *)
(* and no repository handle is recorded.                                   *)
C6_FetchErrorPropagates ==
    (/\ InDownload
     /\ Len(opLog) >= 1
     /\ opLog[1].op = "get_git_repository"
     /\ opLog[1].out.kind \notin {"ok", "RepositoryError"})
    => /\ Len(opLog) = 1
       /\ pc = "idle"
       /\ Last.exc = opLog[1].out
       /\ source = pre
       /\ fs = fsPre

C6_Witness ==
    /\ InDownload
    /\ pc = "idle"
    /\ opLog = <<Op("get_git_repository", 0, GitSrc, Exc("OSError"))>>
    /\ Last.exc = Exc("OSError")

(* C7: the URL descriptor with src basename file-1.2.tar.bz2 and archive   *)
(* name pkgname, downloaded to /tmp/y and archived to /tmp/y, records the  *)
(* archive path /tmp/y/pkgname.tar.bz2, a file with the downloaded body.   *)
C7_VersionedBasename ==
    LET want == TmpY \o <<"/", "pkgname", ".", "tar", ".", "bz2">>
    IN  (/\ DOMAIN src0 = {"url"}
         /\ Basename(src0["url"]["src"].v) = <<"file-1", ".", "2", ".", "tar", ".", "bz2">>
         /\ IsSet(src0["url"], "archive")
         /\ Len(trace) = 2
         /\ pc = "idle"
         /\ trace[1] = [op |-> "download", dir |-> TmpY, exc |-> Ok, clean |-> TRUE]
         /\ trace[2] = [op |-> "archive", dir |-> TmpY, exc |-> Ok, clean |-> TRUE])
        => /\ source["url"]["archive"] = Str(want)
           /\ want \in DOMAIN fs
           /\ fs[want] = Body(BodyLen)

HasHandle(s) == \E k \in DOMAIN s : "dest" \in DOMAIN s[k] \/ "repo" \in DOMAIN s[k]

\* the value under 'archive' is no longer the one the caller gave
HoldsArchivePath(s) ==
    \E k \in DOMAIN s :
        /\ "archive" \in DOMAIN s[k]
        /\ "archive" \in DOMAIN src0[k] => s[k]["archive"] /= src0[k]["archive"]

Succeeded(op) == \E i \in 1..Len(trace) : trace[i].op = op /\ trace[i].exc = Ok

(* C8: dest / the repository handle is present only after some download    *)
(* has returned, an archive path only after some archive has returned; a   *)
(* call that fails, and a download still in progress, leave the descriptor *)
(* as it was at entry.                                                     *)
C8_FieldsFollowSuccess ==
    /\ HasHandle(source) => Succeeded("download")
    /\ HoldsArchivePath(source) => Succeeded("archive")
    /\ (pc = "idle" /\ Len(trace) > 0 /\ Last.exc /= Ok) => source = pre
    /\ pc /= "idle" => source = pre

C8_Witness ==
    /\ pc = "idle"
    /\ Len(trace) = 3
    /\ trace[1].op = "download" /\ trace[1].exc = Ok
    /\ trace[2].op = "archive" /\ trace[2].exc = Ok
    /\ trace[3].op = "download" /\ trace[3].exc = Exc("OSError")
    /\ DOMAIN source = {"git"}
    /\ HasHandle(source)
    /\ HoldsArchivePath(source)

SpecifiedKinds ==
    {"ValueError", "SubprocessError", "RepositoryError", "socket.timeout",
     "URLError", "IOError", "OSError"}

(* C9: every download and archive call, on any descriptor and in any       *)
(* order, returns or fails with one of the specified error kinds.          *)
C9_Total ==
    \A i \in 1..Len(trace) :
        trace[i].exc = Ok \/ trace[i].exc.kind \in SpecifiedKinds

(* C10 as stated: a successful archive leaves every entry the descriptor   *)
(* had before the call, the archive name among them, at its value.         *)
C10_ArchiveKeepsName ==
    (ArchiveEnded /\ Last.exc = Ok)
    => \A k \in DOMAIN pre : \A f \in DOMAIN pre[k] :
          f \in DOMAIN source[k] /\ source[k][f] = pre[k][f]

(* C10 as amended: a successful archive changes only the 'archive' entry,  *)
(* replacing the archive name by the path of the file made: that path is   *)
(* built in the call's directory from the name the entry held, and is what *)
(* a second archive call reads as its archive name.                        *)
C10_ArchiveOverwritesName ==
    (ArchiveEnded /\ Last.exc = Ok)
    => /\ DOMAIN source = DOMAIN pre
       /\ \A k \in DOMAIN pre :
             /\ DOMAIN source[k] = DOMAIN pre[k]
             /\ \A f \in DOMAIN pre[k] \ {"archive"} : source[k][f] = pre[k][f]
             /\ source[k]["archive"] /= pre[k]["archive"]
             /\ LET stem == Join(Last.dir, pre[k]["archive"].v \o <<".">>)
                    path == source[k]["archive"].v
                IN  Len(path) >= Len(stem) /\ SubSeq(path, 1, Len(stem)) = stem

C10_Witness ==
    /\ ArchiveEnded
    /\ Len(trace) = 3
    /\ trace[2].op = "archive" /\ trace[2].exc = Ok
    /\ trace[3].exc = Ok
    /\ DOMAIN source = {"hg"}
    /\ source["hg"]["archive"] = Str(TmpY \o <<"/", "pkgname">> \o TarGz \o TarGz)

(* C11: git download retries the repository fetch on RepositoryError with  *)
(* no bound of its own: after a RepositoryError the call has neither       *)
(* returned nor failed and the fetch is invoked again, so download never   *)
(* fails with a RepositoryError of the fetch; a fetch that succeeds after  *)
(* N such failures is invocation N+1, the last one, and is followed by the *)
(* checkout.                                                               *)
C11_FetchRetriedOnRepositoryError ==
    InDownload =>
    \A k \in 1..Len(opLog) :
        opLog[k].op = "get_git_repository" =>
            /\ opLog[k].out = Exc("RepositoryError") =>
                  IF k < Len(opLog) THEN opLog[k + 1].op = "get_git_repository"
                  ELSE pc = "git_fetch"
            /\ opLog[k].out = Ok =>
                  /\ \A j \in 1..(k - 1) :
                        /\ opLog[j].op = "get_git_repository"
                        /\ opLog[j].out = Exc("RepositoryError")
                  /\ IF k < Len(opLog)
                     THEN k + 1 = Len(opLog) /\ opLog[k + 1].op = "checkout"
                     ELSE pc = "git_checkout"
            /\ (pc = "idle" /\ k = Len(opLog)) => Last.exc.kind /= "RepositoryError"

C11_Witness ==
    /\ pc = "git_checkout"
    /\ Len(opLog) = 3
    /\ opLog[1].out = Exc("RepositoryError")
    /\ opLog[2].out = Exc("RepositoryError")
    /\ opLog[3].op = "get_git_repository"
    /\ opLog[3].out = Ok

(* C12: git download performs exactly one checkout, after the fetch has    *)
(* succeeded and before the repository handle is recorded; the ref is      *)
(* commit_id when the descriptor carries one, also beside a branch, and    *)
(* branch otherwise; a failed checkout is not retried, its error leaves    *)
(* download and no handle is recorded.                                     *)
C12_OneCheckout ==
    (InDownload /\ DOMAIN pre = {"git"}) =>
    LET cs == {k \in 1..Len(opLog) : opLog[k].op = "checkout"}
    IN  /\ Cardinality(cs) <= 1
        /\ \A k \in cs :
              /\ k = Len(opLog)
              /\ k > 1
              /\ opLog[k - 1].op = "get_git_repository"
              /\ opLog[k - 1].out = Ok
              /\ opLog[k].arg = IF IsSet(pre["git"], "commit_id")
                                THEN pre["git"]["commit_id"].v
                                ELSE pre["git"]["branch"].v
              /\ pc = "idle"
              /\ Last.exc = opLog[k].out
              /\ IF opLog[k].out = Ok
                 THEN "repo" \in DOMAIN source["git"]
                 ELSE source = pre
        /\ (pc = "idle" /\ Last.exc = Ok) => Cardinality(cs) = 1
        /\ pc /= "idle" => source = pre
        /\ source /= pre => cs /= {}

C12_Witness ==
    /\ InDownload
    /\ pc = "idle"
    /\ DOMAIN pre = {"git"}
    /\ IsSet(pre["git"], "commit_id")
    /\ IsSet(pre["git"], "branch")
    /\ Len(opLog) = 3
    /\ opLog[3] = Op("checkout", 0, Commit, Ok)
    /\ "repo" \notin DOMAIN pre["git"]
    /\ "repo" \in DOMAIN source["git"]

(* C13: for every hg descriptor that carries a commit_id or a branch,      *)
(* download runs a clone command, and the revision of every clone command  *)
(* it runs is one of the values the descriptor carries: commit_id when     *)
(* only commit_id is set, branch when only branch is set.                  *)
C13_HgRevision ==
    (InDownload /\ DOMAIN pre = {"hg"} /\ ~NoRevision(pre)) =>
    LET revs == {pre["hg"][f].v : f \in {g \in {"commit_id", "branch"} : IsSet(pre["hg"], g)}}
    IN  /\ pc = "idle" => Len(opLog) >= 1
        /\ \A k \in 1..Len(opLog) : opLog[k].arg \in revs

(* C14: in hg download a failed clone is retried if and only if it is a    *)
(* SubprocessError whose captured stdout or stderr contains 'timed out';   *)
(* any other failure leaves download unchanged after that attempt, with no *)
(* further clone and without dest being recorded.                          *)
C14_HgRetryOnlyOnMarker ==
    (InDownload /\ DOMAIN pre = {"hg"}) =>
    \A k \in 1..Len(opLog) :
        (opLog[k].op = "run_command" /\ opLog[k].out /= Ok) =>
            LET out == opLog[k].out
                marked == out.kind = "SubprocessError" /\ (out.stdout \/ out.stderr)
                retried == k < Len(opLog) \/ pc = "hg_clone"
            IN  /\ retried <=> marked
                /\ ~marked => /\ k = Len(opLog)
                              /\ pc = "idle"
                              /\ Last.exc = out
                              /\ source = pre

C14_Witness ==
    /\ InDownload
    /\ pc = "idle"
    /\ DOMAIN pre = {"hg"}
    /\ Len(opLog) = 2
    /\ opLog[1].out = SubprocessError(FALSE, TRUE)
    /\ opLog[2].out = SubprocessError(FALSE, FALSE)
    /\ Last.exc = SubprocessError(FALSE, FALSE)
    /\ "dest" \notin DOMAIN source["hg"]

(* C15: in URL download only the opening of the URL is retried: once the   *)
(* open has succeeded the URL is not opened again, every chunk is read     *)
(* once, and a failure while the body is read or written ends the call     *)
(* with that error, dest not recorded and the partial file left in place.  *)
C15_UrlBodyNotRetried ==
    (InDownload /\ DOMAIN pre = {"url"}) =>
    LET reads(k) == Cardinality({j \in 1..(k - 1) : opLog[j].op = "read"})
    IN  /\ \A k \in 1..Len(opLog) :
              /\ (opLog[k].op = "urlopen" /\ opLog[k].out = Ok) =>
                    \A j \in (k + 1)..Len(opLog) : opLog[j].op /= "urlopen"
              /\ (opLog[k].op \in {"open", "read"} /\ opLog[k].out /= Ok) =>
                    /\ k = Len(opLog)
                    /\ pc = "idle"
                    /\ Last.exc = opLog[k].out
                    /\ source = pre
                    /\ opLog[k].op = "read" =>
                          LET dest == Join(Last.dir, Basename(pre["url"]["src"].v))
                          IN  dest \in DOMAIN fs /\ fs[dest] = Body(reads(k))
        /\ pc = "url_read" => fs[frame.dest] = Body(reads(Len(opLog) + 1))

C15_Witness ==
    /\ InDownload
    /\ pc = "idle"
    /\ DOMAIN pre = {"url"}
    /\ Len(opLog) = 4
    /\ opLog[1].out = Ok
    /\ opLog[3] = Op("read", 0, <<>>, Ok)
    /\ opLog[4] = Op("read", 0, <<>>, Exc("socket.timeout"))
    /\ Last.exc = Exc("socket.timeout")
    /\ "dest" \notin DOMAIN source["url"]
    /\ fs[Join(Last.dir, Basename(pre["url"]["src"].v))] = Chunk(1)

\* what follows the first "." of s, nothing when s has none
AfterFirstDot(s) ==
    IF \E i \in 1..Len(s) : s[i] = "."
    THEN LET i == CHOOSE i \in 1..Len(s) :
                    s[i] = "." /\ \A j \in 1..(i - 1) : s[j] /= "."
         IN  SubSeq(s, i + 1, Len(s))
    ELSE <<>>

\* a URL archive has just returned; what it leaves, but for the old path
UrlArchiveReturned == ArchiveEnded /\ Last.exc = Ok /\ DOMAIN pre = {"url"}

UrlRenamed ==
    LET old == pre["url"]["dest"].v
        path == source["url"]["archive"].v
    IN  /\ path = Join(Last.dir, pre["url"]["archive"].v \o <<".">>
                                   \o AfterFirstDot(Basename(old)))
        /\ path \in DOMAIN fs
        /\ fs[path] = fsPre[old]
        /\ (Len(trace) >= 2 /\ trace[Len(trace) - 1].op = "download"
                /\ trace[Len(trace) - 1].exc = Ok) => fs[path] = Body(BodyLen)
        /\ DOMAIN fs \ {old, path} = DOMAIN fsPre \ {old, path}

(* C16 as stated: URL archive is a pure rename: after it no file exists at *)
(* the old dest path, the file at the recorded archive path has the        *)
(* content the download wrote, and the archive path is                     *)
(* directory/<archive_name>.<ext>, <ext> being what follows the first "."  *)
(* of the downloaded file's base name.                                     *)
C16_UrlArchiveRenames ==
    UrlArchiveReturned =>
        /\ UrlRenamed
        /\ pre["url"]["dest"].v \notin DOMAIN fs

(* C16 as amended: as stated, except that the file is still at the old     *)
(* dest path when the archive path is that very path (same directory, and  *)
(* an archive name equal to the base name up to its first ".").            *)
C16_UrlArchiveRenamesUnlessSamePath ==
    UrlArchiveReturned =>
        /\ UrlRenamed
        /\ pre["url"]["dest"].v \in DOMAIN fs
              <=> source["url"]["archive"].v = pre["url"]["dest"].v

C16_Witness ==
    /\ UrlArchiveReturned
    /\ pre["url"]["dest"].v = TmpY \o <<"/", "file-1", ".", "2", ".", "tar", ".", "bz2">>
    /\ source["url"]["archive"].v = <<"pkgname", ".", "2", ".", "tar", ".", "bz2">>
    /\ DOMAIN fs = {source["url"]["archive"].v}
    /\ fs[source["url"]["archive"].v] = Body(BodyLen)

----------------------------------------------------------------------------
(* tools/build_release_notes.py: run(CONF) *)

Given == Str(<<"given">>)

\* the configurations run may be given
Confs ==
    [commit_updates : BOOLEAN, push_updates : BOOLEAN,
     push_repo_url : {NoneV, Given}, push_repo_branch : {NoneV, Given},
     updater_name : {NoneV, Given}, updater_email : {NoneV, Given}]

\* REQUIRED_PARAMETERS, without the push parameters
RequiredParametersNoPush(c) == <<"updater_name", "updater_email">>

\* REQUIRED_PARAMETERS
RequiredParameters(c) ==
    <<"updater_name", "updater_email">>
    \o (IF c.push_updates THEN <<"push_repo_url", "push_repo_branch">> ELSE <<>>)

\* the positions of the required parameters that are None
MissingAt(c) ==
    {i \in 1..Len(RequiredParameters(c)) : c[RequiredParameters(c)[i]] = NoneV}

\* if commit_updates, with the push tested beside the commit
AfterWriteFlat(c) ==
    IF c.commit_updates THEN "commit"
    ELSE IF c.push_updates THEN "push"
    ELSE "done"

\* if commit_updates: ... after write_version_info
AfterWrite(c) == IF c.commit_updates THEN "commit" ELSE "done"

\* if push_updates: ... inside if commit_updates
AfterCommit(c) == IF c.push_updates THEN "push" ELSE "done"

RunOp(name, arg, out) == [op |-> name, arg |-> arg, out |-> out]

\* one collaborator call of run, after which run is at `next` or has raised
RunStep(name, next, out) ==
    /\ runLog' = Append(runLog, RunOp(name, "", out))
    /\ IF out = Ok
       THEN runPc' = next /\ runExc' = runExc
       ELSE runPc' = "raised" /\ runExc' = out
    /\ UNCHANGED <<conf, pkgVars>>

\* setup_versions_repository .. get_distro
RunSetup(out) ==
    /\ runPc = "start"
    /\ RunStep("setup_versions_repository", "check", out)

\* the loop over REQUIRED_PARAMETERS
RunCheckParameters ==
    /\ runPc = "check"
    /\ IF MissingAt(conf) /= {}
       THEN LET i == CHOOSE i \in MissingAt(conf) : \A j \in MissingAt(conf) : i <= j
            IN  /\ runLog' = Append(runLog,
                        RunOp("raise", RequiredParameters(conf)[i],
                              Exc("RequiredParameterMissing")))
                /\ runPc' = "raised"
                /\ runExc' = Exc("RequiredParameterMissing")
       ELSE /\ runPc' = "load"
            /\ UNCHANGED <<runLog, runExc>>
    /\ UNCHANGED <<conf, pkgVars>>

\* load_packages_metadata
RunLoadMetadata(out) ==
    /\ runPc = "load"
    /\ RunStep("load_packages_metadata", "clone", out)

\* repository.get_git_repository(release_notes_repo_url, ...)
RunCloneWebsite(out) ==
    /\ runPc = "clone"
    /\ RunStep("get_git_repository", "checkout", out)

\* website_repo.checkout(release_notes_repo_branch)
RunCheckoutWebsite(out) ==
    /\ runPc = "checkout"
    /\ RunStep("checkout", "write", out)

\* write_version_info
RunWriteVersionInfo(out) ==
    /\ runPc = "write"
    /\ RunStep("write_version_info", AfterWrite(conf), out)

\* commit_release_notes
RunCommit(out) ==
    /\ runPc = "commit"
    /\ RunStep("commit_release_notes", AfterCommit(conf), out)

\* push_website_head_commit
RunPush(out) ==
    /\ runPc = "push"
    /\ RunStep("push_website_head_commit", "done", out)

RunInit ==
    /\ conf \in Confs
    /\ runPc = "start"
    /\ runLog = <<>>
    /\ runExc = Ok
    /\ source = [k \in {} |-> NoneV]
    /\ src0 = source
    /\ pre = source
    /\ fs = [p \in {} |-> <<>>]
    /\ fsPre = fs
    /\ pc = "idle"
    /\ frame = NoFrame
    /\ opLog = <<>>
    /\ trace = <<>>

RunNext ==
    \/ \E out \in {Ok, Exc("RepositoryError")} : RunSetup(out)
    \/ RunCheckParameters
    \/ \E out \in {Ok, Exc("OSError")} : RunLoadMetadata(out)
    \/ \E out \in {Ok, Exc("RepositoryError")} : RunCloneWebsite(out)
    \/ \E out \in {Ok, Exc("RepositoryError")} : RunCheckoutWebsite(out)
    \/ \E out \in {Ok, Exc("IOError")} : RunWriteVersionInfo(out)
    \/ \E out \in {Ok, Exc("GitCommandError")} : RunCommit(out)
    \/ \E out \in {Ok, Exc("PushError")} : RunPush(out)

RunSpec == RunInit /\ [][RunNext]_vars

----------------------------------------------------------------------------
(* Properties of run *)

RunDid(names) == {k \in 1..Len(runLog) : runLog[k].op \in names}

PushParameterMissing(c) ==
    c.push_updates /\ (c.push_repo_url = NoneV \/ c.push_repo_branch = NoneV)

(* C17: in run, the website repository is pushed only when commit_updates  *)
(* and push_updates are both set, and only after the release-notes commit  *)
(* of the same run has been made; with commit_updates unset there is no    *)
(* commit and no push, whatever push_updates is, while a set push_updates  *)
(* still makes the push parameters required.                               *)
C17_PushOnlyAfterCommit ==
    /\ \A k \in RunDid({"push_website_head_commit"}) :
          /\ conf.commit_updates
          /\ conf.push_updates
          /\ \E j \in 1..(k - 1) :
                runLog[j] = RunOp("commit_release_notes", "", Ok)
    /\ ~conf.commit_updates =>
          RunDid({"commit_release_notes", "push_website_head_commit"}) = {}
    /\ PushParameterMissing(conf) =>
          runPc \in {"start", "check", "raised"}
             /\ RunDid({"load_packages_metadata", "write_version_info"}) = {}

C17_Witness ==
    /\ runPc = "done"
    /\ conf.commit_updates
    /\ conf.push_updates
    /\ Len(runLog) = 7
    /\ runLog[6] = RunOp("commit_release_notes", "", Ok)
    /\ runLog[7] = RunOp("push_website_head_commit", "", Ok)

(* C18: in run, when updater_name or updater_email is missing, or          *)
(* push_updates is set and push_repo_url or push_repo_branch is missing,   *)
(* run, once it has read its configuration, fails with                     *)
(* RequiredParameterMissing before the website repository is cloned or     *)
(* checked out, before the release file is written and before any commit   *)
(* or push.                                                                *)
C18_RequiredParametersFirst ==
    (\/ conf.updater_name = NoneV
     \/ conf.updater_email = NoneV
     \/ PushParameterMissing(conf))
    => /\ RunDid({"get_git_repository", "checkout", "write_version_info",
                  "commit_release_notes", "push_website_head_commit",
                  "load_packages_metadata"}) = {}
       /\ runPc \in {"start", "check", "raised"}
       /\ (runPc = "raised" /\ runLog[1].out = Ok) =>
             /\ runExc = Exc("RequiredParameterMissing")
             /\ Len(runLog) = 2
             /\ runLog[2].op = "raise"
             /\ conf[runLog[2].arg] = NoneV

C18_Witness ==
    /\ runPc = "raised"
    /\ runExc = Exc("RequiredParameterMissing")
    /\ conf.updater_name = Given
    /\ conf.updater_email = Given
    /\ conf.push_updates
    /\ conf.push_repo_url = Given
    /\ conf.push_repo_branch = NoneV
    /\ runLog[2].arg = "push_repo_branch"

====
